---- MODULE Spec2Model ----
(***************************************************************************)
(* Model of src/app.py: a Streamlit script that turns an endpoint list     *)
(* (from the demo catalog or from the Gemini model) into an OpenAPI        *)
(* document, a FastAPI scaffold and a client script, previews the          *)
(* endpoints and offers the three texts plus a README as a ZIP download.   *)
(*                                                                         *)
(* A Streamlit script is re-executed from the top on every widget event;   *)
(* what the user sees is what the last execution wrote.  One action of the *)
(* session specification is therefore one widget event together with the   *)
(* whole script run it triggers.                                           *)
(*                                                                         *)
(* Encoding of Python values:                                              *)
(*   - a dict with a fixed set of possible keys is a record; a key the     *)
(*     dict does not hold has the value NoKey;                             *)
(*   - an insertion-ordered dict built at run time (the OpenAPI paths map) *)
(*     is a sequence of entries with pairwise distinct keys;               *)
(*   - an optional page element is a sequence of length 0 or 1;            *)
(*   - a text assembled from fragments is the tuple of its fragments.      *)
(***************************************************************************)
EXTENDS Integers, Sequences, FiniteSets, TLC

\* ------------------------------------------------------------------ bounds

\* Longest endpoint list handed to the three renderers on their own.
MaxEndpoints == 2

\* Longest endpoint list in a JSON object answered by the model.
MaxReplyEndpoints == 2

\* ------------------------------------------------------- values and strings

\* A key that a dict does not hold.
NoKey == "<no key>"

\* Method spellings seen by the renderers.
Methods == {"GET", "get", "POST"}

\* str.lower() on the method spellings of the model.
Lower(s) ==
    CASE s = "GET" -> "get"
      [] s = "POST" -> "post"
      [] OTHER -> s

\* str.upper() on the method spellings of the model.
Upper(s) ==
    CASE s = "get" -> "GET"
      [] s = "post" -> "POST"
      [] OTHER -> s

\* dict.get(key, default) / a Jinja2 attribute lookup with a default.
Get(d, key, default) == IF d[key] = NoKey THEN default ELSE d[key]

\* Whether the dict holds the key (d[key] does not raise KeyError).
Has(d, key) == d[key] # NoKey

\* Well-formed endpoint dictionaries: all four keys present.
Endpoint ==
    [path : {"/a", "/b"}, method : Methods, summary : {"s1", "s2"},
     func_name : {"f", "g"}]

\* Endpoint dictionaries as the model may answer them: any key may be absent;
\* one more complete endpoint on a second path.
ReplyEndpoint ==
    [path : {"/a", NoKey}, method : {"get", NoKey}, summary : {"s1", NoKey},
     func_name : {"f", NoKey}]
    \cup {[path |-> "/b", method |-> "get", summary |-> "s1", func_name |-> "f"]}

\* All sequences over S of length lo..hi.
SeqsOf(S, lo, hi) == UNION {[1..n -> S] : n \in lo..hi}

\* Values datetime.utcnow().isoformat() may take during a run.
Timestamps == {"t1", "t2"}

\* ------------------------------------------------------------- generators

\* The fixed operation entry of line 46-49.
Operation(ep) ==
    [summary |-> Get(ep, "summary", ""),
     responses |-> [code |-> "200", description |-> "Success"]]

\* Faulty variant: first write wins, an existing key keeps its value.
AssignMethodKeepFirst(ops, method, op) ==
    IF \E j \in 1..Len(ops) : ops[j].method = method
    THEN ops
    ELSE Append(ops, [method |-> method, op |-> op])

\* ops[method] = op on an insertion-ordered dict: an existing key keeps its
\* position and takes the new value, a new key is appended.
AssignMethod(ops, method, op) ==
    IF \E j \in 1..Len(ops) : ops[j].method = method
    THEN [j \in 1..Len(ops) |->
            IF ops[j].method = method THEN [method |-> method, op |-> op]
            ELSE ops[j]]
    ELSE Append(ops, [method |-> method, op |-> op])

\* spec['paths'].setdefault(path, {})[method] = op.
SetDefaultAssign(paths, path, method, op) ==
    IF \E i \in 1..Len(paths) : paths[i].path = path
    THEN [i \in 1..Len(paths) |->
            IF paths[i].path = path
            THEN [path |-> path, ops |-> AssignMethod(paths[i].ops, method, op)]
            ELSE paths[i]]
    ELSE Append(paths, [path |-> path,
                        ops |-> <<[method |-> method, op |-> op]>>])

\* The paths map after the loop of line 43 has consumed endpoints[1..n].
RECURSIVE openapi_paths(_, _)
openapi_paths(endpoints, n) ==
    IF n = 0 THEN <<>>
    ELSE SetDefaultAssign(openapi_paths(endpoints, n - 1),
                          endpoints[n].path,
                          Lower(endpoints[n].method),
                          Operation(endpoints[n]))

\* generate_openapi raises KeyError (ep['path'], ep['method']).
openapi_raises(endpoints) ==
    \E i \in 1..Len(endpoints) :
        ~Has(endpoints[i], "path") \/ ~Has(endpoints[i], "method")

\* generate_openapi: the document that yaml.safe_dump(sort_keys=False) writes,
\* key by key in insertion order.
generate_openapi(api_name, version, desc, endpoints) ==
    [openapi |-> "3.0.3",
     info |-> [title |-> api_name, version |-> version, description |-> desc],
     servers |-> <<[url |-> "{{baseUrl}}"]>>,
     paths |-> openapi_paths(endpoints, Len(endpoints))]

\* Faulty variant: the decorator takes the method as given, not lowercased.
HandlerBlockMethodAsGiven(ep) ==
    [decorator |-> <<"@app.", ep.method, "(\"", ep.path, "\")">>,
     def |-> <<"async def ", Get(ep, "func_name", ""), "():">>,
     ret |-> <<"return {\"demo\": \"", Get(ep, "summary", ""), "\"}">>]

\* One pass of the template's for loop: decorator, def line, return line.
HandlerBlock(ep) ==
    [decorator |-> <<"@app.", Lower(ep.method), "(\"", ep.path, "\")">>,
     def |-> <<"async def ", Get(ep, "func_name", ""), "():">>,
     ret |-> <<"return {\"demo\": \"", Get(ep, "summary", ""), "\"}">>]

\* scaffold_fastapi_app: the rendered template.
scaffold_fastapi_app(api_name, version, endpoints, timestamp) ==
    [app |-> [title |-> api_name, version |-> version],
     health |-> [decorator |-> <<"@app.", "get", "(\"", "/health", "\")">>,
                 def |-> <<"async def ", "health", "():">>,
                 ret |-> [status |-> "ok", timestamp |-> timestamp]],
     handlers |-> [i \in 1..Len(endpoints) |-> HandlerBlock(endpoints[i])]]

\* The two lines appended per endpoint by scaffold_client_demo.
ClientLines(ep) ==
    <<<<"resp = requests.", Lower(ep.method), "(f'{BASE_URL}", ep.path, "')">>,
      <<"print(resp.status_code, resp.text)">>>>

RECURSIVE client_lines(_, _)
client_lines(endpoints, n) ==
    IF n = 0 THEN <<<<"import requests">>, <<"BASE_URL = \"http://localhost:8000\"">>>>
    ELSE client_lines(endpoints, n - 1) \o ClientLines(endpoints[n])

\* scaffold_client_demo: the lines joined by "\n".
scaffold_client_demo(endpoints) == client_lines(endpoints, Len(endpoints))

\* make_zip: one archive member per item of files, in the dict's order.
make_zip(files) == [i \in 1..Len(files) |-> [name |-> files[i][1], content |-> files[i][2]]]


\* ------------------------------------------------------------ demo catalog

CustomRequirement == "Custom requirement"

DefaultRequirement == "I want a simple API that manages tasks."

\* What the requirement text area may hold.
Requirements == {"", DefaultRequirement}

Ep(path, method, summary, func_name) ==
    [path |-> path, method |-> method, summary |-> summary, func_name |-> func_name]

\* The prebuilt demos, rebuilt by every script run.
demo_apis ==
    [k \in {"Todo API", "Notes API", "Calculator API"} |->
        CASE k = "Todo API" ->
               <<Ep("/todos", "GET", "List todos", "list_todos"),
                 Ep("/todos", "POST", "Create todo", "create_todo")>>
          [] k = "Notes API" ->
               <<Ep("/notes", "GET", "List notes", "list_notes"),
                 Ep("/notes", "POST", "Create note", "create_note")>>
          [] k = "Calculator API" ->
               <<Ep("/add", "GET", "Add two numbers", "add"),
                 Ep("/multiply", "GET", "Multiply two numbers", "multiply")>>]

DemoKeys == DOMAIN demo_apis

\* The options of the select box.
Choices == DemoKeys \cup {CustomRequirement}

\* str.replace(' ', '_') on the API names of the model.
ReplaceSpaces(s) ==
    CASE s = "Todo API" -> "Todo_API"
      [] s = "Notes API" -> "Notes_API"
      [] s = "Calculator API" -> "Calculator_API"
      [] s = "Custom API" -> "Custom_API"
      [] s = "Shop API" -> "Shop_API"
      [] OTHER -> s

\* ------------------------------------------------- the external capability

\* What MODEL.generate_content does and returns, seen from the caller:
\*   raises      the call raises (network, quota, timeout, ...)
\*   not_json    response.text is not JSON: json.loads raises
\*   not_object  response.text is JSON but no object: api_details.get raises
\*   object      a JSON object; endpoints_key says whether it has 'endpoints'
FailedReplies ==
    {[kind |-> k, name |-> NoKey, version |-> NoKey, description |-> NoKey,
      endpoints_key |-> FALSE, endpoints |-> <<>>] :
        k \in {"raises", "not_json", "not_object"}}

ObjectReplies ==
    {[kind |-> "object", name |-> m[1], version |-> m[2], description |-> m[3],
      endpoints_key |-> e[1], endpoints |-> e[2]] :
        m \in {<<NoKey, NoKey, NoKey>>, <<"Shop API", "2.0.0", "Sells things.">>},
        e \in ({<<FALSE, <<>> >>}
               \cup {<<TRUE, l>> : l \in SeqsOf(ReplyEndpoint, 0, MaxReplyEndpoints)})}

Replies == FailedReplies \cup ObjectReplies

\* Without MODEL no reply is ever received.
NoReply == CHOOSE r \in FailedReplies : r.kind = "raises"


\* ------------------------------------------------------------------- state

VARIABLES
    credential,   \* GEMINI_API_KEY is set, so MODEL is defined (lines 15-20)
    reply,        \* how the external capability answers a call in this session
    choice,       \* the select box's value (line 197)
    custom_req,   \* st.session_state.custom_req (lines 194-195, 204, 209)
    event,        \* the widget event that triggered the last script run
    calls,        \* MODEL.generate_content calls made by the last script run
    endpoints,    \* the script variable endpoints when the last run ended
    page,         \* the elements the last script run displayed
    request,      \* renderer specification: the arguments of the three renderers
    artifacts     \* renderer specification: what each renderer returned

vars ==
    <<credential, reply, choice, custom_req, event, calls, endpoints, page,
      request, artifacts>>

sessionVars == <<credential, reply, choice, custom_req, event, calls, endpoints, page>>

rendererVars == <<request, artifacts>>

\* ------------------------------------------------------------ page elements

Alert(level, text) == [level |-> level, text |-> text]

KeyNotFound ==
    Alert("error", <<"API Key not found. Please add your GEMINI_API_KEY to Streamlit's secrets manager.">>)

EmptyRequirement ==
    Alert("error", <<"Please enter a requirement to generate a custom API.">>)

NoEndpoints ==
    Alert("warning", <<"AI did not generate any endpoints. Please try a different prompt.">>)

AiFailed(e) == Alert("error", <<"An error occurred during AI generation: ", e>>)

NothingToGenerate ==
    Alert("warning", <<"Please select a demo or enter a custom requirement to generate the API.">>)

\* Streamlit's display of an exception the script did not catch.
Uncaught(e) == Alert("exception", <<e>>)

\* What lines 12-210 display: the title, the widgets and, without the
\* credential, the error of line 20.  Only the alerts are kept.
TopOfPage(cred) ==
    [alerts |-> IF cred THEN <<>> ELSE <<KeyNotFound>>,
     openapi |-> <<>>, fastapi |-> <<>>, client |-> <<>>,
     previews |-> <<>>, download |-> <<>>]

WithAlert(pg, a) == [pg EXCEPT !.alerts = Append(@, a)]

\* Lines 255 and 257 for one endpoint; ep['summary'] raises KeyError after the
\* button has been drawn.
CallLabel(ep) == <<"Call ", ep.method, " ", ep.path>>

SimulatedResponse(ep) ==
    [message |-> <<"Called ", ep.method, " ", ep.path>>,
     summary |-> ep.summary, status |-> "ok"]

Preview(ep) ==
    [button |-> CallLabel(ep),
     json |-> IF Has(ep, "summary") THEN <<SimulatedResponse(ep)>> ELSE <<>>]

\* The loop of lines 254-257 over eps[1..n]: the previews drawn and the
\* exception that ended the loop, if any.  st.button raises DuplicateWidgetID
\* for a label an earlier button of the run already has (the buttons have no
\* key); ep['summary'] raises KeyError after the button has been drawn.
RECURSIVE try_api_now(_, _)
try_api_now(eps, n) ==
    IF n = 0 THEN [previews |-> <<>>, raised |-> <<>>]
    ELSE LET before == try_api_now(eps, n - 1)
         IN  IF before.raised # <<>> THEN before
             ELSE IF \E j \in 1..(n - 1) : CallLabel(eps[j]) = CallLabel(eps[n])
             THEN [before EXCEPT !.raised = <<"DuplicateWidgetID">>]
             ELSE [previews |-> Append(before.previews, Preview(eps[n])),
                   raised |-> IF Has(eps[n], "summary") THEN <<>> ELSE <<"KeyError">>]

\* Faulty variant: the loop's exceptions are swallowed.
preview_never_raises(eps) == FALSE

\* The loop of lines 254-257 ends in an exception.
preview_raises(eps) == try_api_now(eps, Len(eps)).raised # <<>>

\* The files dict of lines 259-264, in insertion order.
ProjectFiles(api_name, desc, openapi_yaml, fastapi_code, client_code) ==
    << <<"openapi.yaml", openapi_yaml>>,
       <<"backend/main.py", fastapi_code>>,
       <<"client_demo.py", client_code>>,
       <<"README.md", <<"# ", api_name, "\n\n", desc, "\n">> >> >>

DownloadButton(api_name, files) ==
    [label |-> "Download API Project ZIP", data |-> make_zip(files),
     file_name |-> <<ReplaceSpaces(api_name), "_cradle.zip">>]

\* Lines 237-268: the block after the custom branch.
RenderBlock(pg, api_name, version, desc, eps, ts) ==
    IF eps = <<>> THEN WithAlert(pg, NothingToGenerate)
    ELSE IF openapi_raises(eps) THEN WithAlert(pg, Uncaught("KeyError"))
    ELSE
      LET openapi_yaml == generate_openapi(api_name, version, desc, eps)
          fastapi_code == scaffold_fastapi_app(api_name, version, eps, ts)
          client_code == scaffold_client_demo(eps)
          shown == [pg EXCEPT !.openapi = <<openapi_yaml>>,
                              !.fastapi = <<fastapi_code>>,
                              !.client = <<client_code>>,
                              !.previews = try_api_now(eps, Len(eps)).previews]
      IN  IF preview_raises(eps)
          THEN WithAlert(shown, Uncaught(try_api_now(eps, Len(eps)).raised[1]))
          ELSE [shown EXCEPT !.download =
                   <<DownloadButton(api_name,
                        ProjectFiles(api_name, desc, openapi_yaml, fastapi_code,
                                     client_code))>>]


\* ------------------------------------------------------- the script's parts

\* Faulty variant: only the first catalog entry of a demo is taken.
select_endpoints_first_only(c) ==
    IF c # CustomRequirement THEN SubSeq(demo_apis[c], 1, 1) ELSE <<>>

\* Lines 199-210: the endpoint list chosen before the button is looked at.
select_endpoints(c) == IF c # CustomRequirement THEN demo_apis[c] ELSE <<>>

\* Lines 201-203 for a demo.
DemoVersion == "0.1.0"

DemoDescription(c) == <<"Auto-generated ", c, " using Agentic AI API Engineer.">>

\* Faulty variant: the requirement is never found missing.
requirement_never_missing(text) == FALSE

\* Line 214: not st.session_state.custom_req.
requirement_missing(text) == text = ""

\* The rule-based pair a fallback policy would substitute.
FallbackPair ==
    <<Ep("/items", "GET", "List items", "list_items"),
      Ep("/items", "POST", "Create item", "create_item")>>

\* Faulty variant: an answer without 'endpoints' falls back to the fixed pair,
\* while the other failure classes stay errors.
reply_endpoints_with_fallback(value) ==
    IF value.endpoints_key THEN value.endpoints ELSE FallbackPair

\* Line 227: api_details.get("endpoints", []).
reply_endpoints(value) == IF value.endpoints_key THEN value.endpoints ELSE <<>>

\* generate_api_details_from_prompt (lines 118-169): MODEL is undefined
\* without the credential (NameError before any call); otherwise one call,
\* which raises, or whose text json.loads parses or fails to parse.
generate_api_details_from_prompt(cred, rep) ==
    [calls |-> IF cred THEN 1 ELSE 0,
     raised |-> IF ~cred THEN <<"NameError">>
                ELSE IF rep.kind = "raises" THEN <<"Exception">>
                ELSE IF rep.kind = "not_json" THEN <<"JSONDecodeError">>
                ELSE <<>>,
     value |-> rep]

\* Lines 218-235: the custom branch once the requirement is not empty.
\* Gives the page, the endpoint list and whether the script went on to the
\* block of line 237 (go) or ended in st.stop().
CustomBranch(pg, cred, rep) ==
    LET got == generate_api_details_from_prompt(cred, rep)
        stop(a) == [calls |-> got.calls, go |-> FALSE, page |-> WithAlert(pg, a),
                    api_name |-> "Custom API", version |-> "0.1.0",
                    desc |-> <<"Generated from natural language requirement.">>,
                    endpoints |-> <<>>]
    IN  IF got.raised # <<>> THEN stop(AiFailed(got.raised[1]))
        ELSE IF got.value.kind = "not_object" THEN stop(AiFailed("AttributeError"))
        ELSE LET eps == reply_endpoints(got.value)
             IN  IF eps = <<>> THEN stop(NoEndpoints)
                 ELSE [calls |-> got.calls, go |-> TRUE, page |-> pg,
                       api_name |-> Get(got.value, "name", "Custom API"),
                       version |-> Get(got.value, "version", "0.1.0"),
                       desc |-> <<Get(got.value, "description", "Generated by AI.")>>,
                       endpoints |-> eps]

\* The requirement as the script leaves it: a demo resets it (line 204), the
\* custom branch stores what the text area holds (line 209).
RequirementAfter(c, text) == IF c # CustomRequirement THEN DefaultRequirement ELSE text

\* Faulty variant: a run without the button keeps the previous page.
RunIdleKeepsPage(ev, c, text) ==
    /\ event' = ev
    /\ choice' = c
    /\ custom_req' = RequirementAfter(c, text)
    /\ calls' = 0
    /\ endpoints' = select_endpoints(c)
    /\ page' = page
    /\ UNCHANGED <<credential, reply>>

\* A script run in which the generate button is not pressed: lines 12-211.
RunIdle(ev, c, text) ==
    /\ event' = ev
    /\ choice' = c
    /\ custom_req' = RequirementAfter(c, text)
    /\ calls' = 0
    /\ endpoints' = select_endpoints(c)
    /\ page' = TopOfPage(credential)
    /\ UNCHANGED <<credential, reply>>

\* ----------------------------------------------------------------- actions

\* The user picks another option of the select box.
Select ==
    \E c \in Choices \ {choice} :
        /\ RunIdle("select", c, custom_req)
        /\ UNCHANGED rendererVars

\* The user changes the requirement text (the text area exists only for
\* 'Custom requirement').
EditRequirement ==
    /\ choice = CustomRequirement
    /\ \E t \in Requirements \ {custom_req} : RunIdle("edit", choice, t)
    /\ UNCHANGED rendererVars

\* The user presses 'Generate API from scratch': lines 212-268.
Generate ==
    /\ event' = "generate"
    /\ UNCHANGED <<credential, reply, choice, rendererVars>>
    /\ custom_req' = RequirementAfter(choice, custom_req)
    /\ \E ts \in Timestamps :
        LET top == TopOfPage(credential) IN
        IF choice # CustomRequirement
        THEN /\ calls' = 0
             /\ endpoints' = select_endpoints(choice)
             /\ page' = RenderBlock(top, choice, DemoVersion, DemoDescription(choice),
                                    select_endpoints(choice), ts)
        ELSE IF requirement_missing(custom_req)
        THEN /\ calls' = 0
             /\ endpoints' = select_endpoints(choice)
             /\ page' = WithAlert(top, EmptyRequirement)
        ELSE LET r == CustomBranch(top, credential, reply) IN
             /\ calls' = r.calls
             /\ endpoints' = r.endpoints
             /\ page' = IF r.go
                        THEN RenderBlock(r.page, r.api_name, r.version, r.desc,
                                         r.endpoints, ts)
                        ELSE r.page

\* The user presses one of the 'Call ...' buttons of the preview: the script
\* runs again with the generate button not pressed.
CallEndpoint ==
    /\ \E i \in 1..Len(page.previews) : RunIdle("call", choice, custom_req)
    /\ UNCHANGED rendererVars

\* The user presses the download button: the browser saves the archive and
\* the script runs again with the generate button not pressed.
Download ==
    /\ page.download # <<>>
    /\ RunIdle("download", choice, custom_req)
    /\ UNCHANGED rendererVars

IdleRequest == [api_name |-> "", version |-> "", desc |-> <<>>, endpoints |-> <<>>]

NoArtifacts == [openapi |-> <<>>, fastapi |-> <<>>, client |-> <<>>]

\* The first script run of a session: the select box shows its first option.
Init ==
    /\ credential \in BOOLEAN
    /\ reply \in (IF credential THEN Replies ELSE {NoReply})
    /\ choice = "Todo API"
    /\ custom_req = DefaultRequirement
    /\ event = "load"
    /\ calls = 0
    /\ endpoints = select_endpoints("Todo API")
    /\ page = TopOfPage(credential)
    /\ request = IdleRequest
    /\ artifacts = NoArtifacts

Next == Select \/ EditRequirement \/ Generate \/ CallEndpoint \/ Download

Spec == Init /\ [][Next]_vars

\* ------------------------------------------- the renderers on their own

Requests ==
    [api_name : {"Custom API"}, version : {"0.1.0"}, desc : {<<"Generated by AI.">>},
     endpoints : SeqsOf(Endpoint, 0, MaxEndpoints)]

InitRender ==
    /\ credential = FALSE
    /\ reply = NoReply
    /\ choice = "Todo API"
    /\ custom_req = DefaultRequirement
    /\ event = "load"
    /\ calls = 0
    /\ endpoints = select_endpoints("Todo API")
    /\ page = TopOfPage(FALSE)
    /\ request \in Requests
    /\ artifacts = NoArtifacts

RenderOpenapi ==
    /\ artifacts.openapi = <<>>
    /\ artifacts' = [artifacts EXCEPT !.openapi =
           <<generate_openapi(request.api_name, request.version, request.desc,
                              request.endpoints)>>]
    /\ UNCHANGED <<request, sessionVars>>

RenderFastapi ==
    /\ artifacts.fastapi = <<>>
    /\ \E ts \in Timestamps :
         artifacts' = [artifacts EXCEPT !.fastapi =
           <<scaffold_fastapi_app(request.api_name, request.version,
                                  request.endpoints, ts)>>]
    /\ UNCHANGED <<request, sessionVars>>

RenderClient ==
    /\ artifacts.client = <<>>
    /\ artifacts' = [artifacts EXCEPT !.client = <<scaffold_client_demo(request.endpoints)>>]
    /\ UNCHANGED <<request, sessionVars>>

NextRender == RenderOpenapi \/ RenderFastapi \/ RenderClient

SpecRender == InitRender /\ [][NextRender]_vars


\* ------------------------------------------------ reading pages and artifacts

\* Some artifact, simulated response, preview button or download is displayed.
AnyOutput ==
    \/ page.openapi # <<>> \/ page.fastapi # <<>> \/ page.client # <<>>
    \/ page.previews # <<>> \/ page.download # <<>>

\* The Rendered state: the three artifacts and the download are displayed.
Rendered ==
    /\ page.openapi # <<>> /\ page.fastapi # <<>> /\ page.client # <<>>
    /\ page.download # <<>>

\* The alerts the run added below the top of the page.
RunAlerts == SubSeq(page.alerts, Len(TopOfPage(credential).alerts) + 1, Len(page.alerts))

GenerateOnCustom == event = "generate" /\ choice = CustomRequirement

\* The capability fails in one of the classes of the failure policy.
CapabilityFails ==
    \/ ~credential
    \/ reply.kind \in {"raises", "not_json", "not_object"}
    \/ reply.kind = "object" /\ (~reply.endpoints_key \/ reply.endpoints = <<>>)

\* The (method key, path) pairs of an OpenAPI document's paths map.
OpenapiPairs(doc) ==
    UNION {{<<doc.paths[i].ops[j].method, doc.paths[i].path>> :
                j \in 1..Len(doc.paths[i].ops)} : i \in 1..Len(doc.paths)}

\* The (method, path) pairs of the route decorators of the scaffold's handlers.
ServerPairs(code) ==
    {<<code.handlers[i].decorator[2], code.handlers[i].decorator[4]>> :
        i \in 1..Len(code.handlers)}

\* The (method, path) pairs of the request calls of the client script.
ClientPairs(lines) ==
    {<<lines[i][2], lines[i][4]>> :
        i \in {k \in 1..Len(lines) : lines[k][1] = "resp = requests."}}

\* The names of the scaffold's handlers, in order.
HandlerNames(code) == [i \in 1..Len(code.handlers) |-> code.handlers[i].def[2]]

\* ------------------------------------------------------------------ claims

\* C1: generate on 'Custom requirement' with an empty requirement ends with
\* the input error, calls the external capability zero times and displays no
\* artifact, simulated response or download.
C1_EmptyRequirement ==
    (GenerateOnCustom /\ custom_req = "") =>
        /\ calls = 0
        /\ RunAlerts = <<EmptyRequirement>>
        /\ ~AnyOutput

C1_Witness ==
    GenerateOnCustom /\ custom_req = "" /\ credential /\ reply.kind = "object"
    /\ reply.endpoints # <<>>

\* C2: in every failure class of the external capability (no credential, the
\* call raises, the text is not JSON or no object, no or zero endpoints) the
\* generate action ends with one reported message, substitutes no endpoint
\* list and displays no artifact, simulated response or download.
C2_StrictFailurePolicy ==
    (GenerateOnCustom /\ custom_req # "" /\ CapabilityFails) =>
        /\ Len(RunAlerts) = 1
        /\ RunAlerts[1].level \in {"error", "warning"}
        /\ endpoints = <<>>
        /\ ~AnyOutput

C2_Witness ==
    GenerateOnCustom /\ custom_req # "" /\ credential /\ reply.kind = "object"
    /\ ~reply.endpoints_key /\ calls = 1 /\ RunAlerts = <<NoEndpoints>>

\* C3: a non-empty answered endpoint list in which some endpoint lacks path,
\* method, summary or function name ends the generate action in the reported
\* error state with none of the OpenAPI text, scaffold, client script,
\* simulated responses or download displayed.
C3_MalformedEndpointIsTerminal ==
    (/\ GenerateOnCustom /\ custom_req # "" /\ credential
     /\ reply.kind = "object" /\ reply.endpoints_key
     /\ \E i \in 1..Len(reply.endpoints) :
            \E k \in {"path", "method", "summary", "func_name"} :
                ~Has(reply.endpoints[i], k))
    => (~AnyOutput /\ RunAlerts # <<>>)

\* C4: generate on a demo key never calls the external capability and reaches
\* the rendered state with exactly the catalog's endpoint list of that key,
\* with or without the credential.
C4_DemoIsCatalog ==
    (event = "generate" /\ choice \in DemoKeys) =>
        LET cat == demo_apis[choice] IN
        /\ calls = 0
        /\ Rendered
        /\ endpoints = cat
        /\ Len(page.previews) = Len(cat)
        /\ \A i \in 1..Len(cat) :
              /\ page.previews[i].button = <<"Call ", cat[i].method, " ", cat[i].path>>
              /\ page.previews[i].json # <<>>
              /\ page.previews[i].json[1].summary = cat[i].summary
        /\ HandlerNames(page.fastapi[1]) = [i \in 1..Len(cat) |-> cat[i].func_name]
        /\ Len(page.client[1]) = 2 + 2 * Len(cat)

C4_Witness ==
    event = "generate" /\ choice = "Calculator API" /\ ~credential /\ Rendered

\* C5: the three artifacts of one endpoint list agree: the (lowercased method,
\* path) pairs of the OpenAPI paths map, of the scaffold's handlers and of the
\* client's request calls are the same set.
C5_ArtifactsConsistent ==
    (artifacts.openapi # <<>> /\ artifacts.fastapi # <<>> /\ artifacts.client # <<>>) =>
        LET want == {<<Lower(request.endpoints[i].method), request.endpoints[i].path>> :
                        i \in 1..Len(request.endpoints)}
        IN  /\ OpenapiPairs(artifacts.openapi[1]) = want
            /\ ServerPairs(artifacts.fastapi[1]) = want
            /\ ClientPairs(artifacts.client[1]) = want

C5_Witness ==
    /\ artifacts.openapi # <<>> /\ artifacts.fastapi # <<>> /\ artifacts.client # <<>>
    /\ Len(request.endpoints) = 2
    /\ request.endpoints[1].method = "GET" /\ request.endpoints[2].method = "POST"
    /\ request.endpoints[1].path # request.endpoints[2].path

\* C6: the paths map has one entry per path and, within it, one key per
\* lowercased method; an operation's summary is that of the last endpoint in
\* input order with that path and (case-insensitively) that method.
C6_GroupedLastWriteWins ==
    artifacts.openapi # <<>> =>
        LET eps == request.endpoints
            paths == artifacts.openapi[1].paths
            Last(p, m) ==
                CHOOSE i \in 1..Len(eps) :
                    /\ eps[i].path = p /\ Lower(eps[i].method) = m
                    /\ \A j \in 1..Len(eps) :
                          (eps[j].path = p /\ Lower(eps[j].method) = m) => j <= i
        IN  /\ \A a, b \in 1..Len(paths) : paths[a].path = paths[b].path => a = b
            /\ {paths[a].path : a \in 1..Len(paths)} = {eps[i].path : i \in 1..Len(eps)}
            /\ \A a \in 1..Len(paths) :
                 LET ops == paths[a].ops IN
                 /\ \A x, y \in 1..Len(ops) : ops[x].method = ops[y].method => x = y
                 /\ {ops[x].method : x \in 1..Len(ops)}
                      = {Lower(eps[i].method) :
                            i \in {k \in 1..Len(eps) : eps[k].path = paths[a].path}}
                 /\ \A x \in 1..Len(ops) :
                      ops[x].op.summary = eps[Last(paths[a].path, ops[x].method)].summary

C6_Witness ==
    /\ artifacts.openapi # <<>>
    /\ Len(request.endpoints) = 2
    /\ request.endpoints[1].path = request.endpoints[2].path
    /\ request.endpoints[1].method = "GET" /\ request.endpoints[2].method = "get"
    /\ request.endpoints[1].summary = "s1" /\ request.endpoints[2].summary = "s2"
    /\ artifacts.openapi[1].paths[1].ops[1].op.summary = "s2"

\* C7: the scaffold holds exactly one handler per unique function name of the
\* input (two endpoints with the same function name do not give two handlers
\* of that name) and a health route whose status is "ok".
C7_OneHandlerPerFunctionName ==
    artifacts.fastapi # <<>> =>
        LET names == HandlerNames(artifacts.fastapi[1]) IN
        /\ \A a, b \in 1..Len(names) : names[a] = names[b] => a = b
        /\ {names[a] : a \in 1..Len(names)}
             = {request.endpoints[i].func_name : i \in 1..Len(request.endpoints)}
        /\ artifacts.fastapi[1].health.ret.status = "ok"

\* C8: artifacts, simulated responses and download are displayed only by a
\* generate action, for the current selection; every change of the selector
\* leaves a page without any of them.
C8_SessionFlow ==
    [][/\ (choice' # choice => ~AnyOutput')
       /\ (AnyOutput' =>
             /\ event' = "generate"
             /\ page'.openapi # <<>>
             /\ page'.openapi[1].info.title =
                  (IF choice' \in DemoKeys THEN choice'
                   ELSE Get(reply', "name", "Custom API")))]_vars

C8_Witness ==
    event = "select" /\ choice = "Notes API" /\ ~AnyOutput

\* C9: in the OpenAPI key, the route decorator and the client call the method
\* is lowercase; in the 'Call ...' button label and the simulated response
\* message it is uppercase.
C9_MethodCaseNormalized ==
    Rendered =>
        \A i \in 1..Len(endpoints) :
            /\ page.fastapi[1].handlers[i].decorator[2] = Lower(endpoints[i].method)
            /\ page.client[1][2 * i + 1][2] = Lower(endpoints[i].method)
            /\ \E pr \in OpenapiPairs(page.openapi[1]) : pr[1] = Lower(endpoints[i].method)
            /\ page.previews[i].button[2] = Upper(endpoints[i].method)
            /\ page.previews[i].json[1].message[2] = Upper(endpoints[i].method)

\* C10: whenever the download is offered, the archive holds exactly the four
\* files openapi.yaml, backend/main.py, client_demo.py and README.md, the
\* first three with the texts displayed in the same run, and one simulated
\* response with status "ok" per endpoint, in input order, is displayed.
C10_DownloadAfterAll ==
    page.download # <<>> =>
        LET zip == page.download[1].data IN
        /\ event = "generate"
        /\ page.openapi # <<>> /\ page.fastapi # <<>> /\ page.client # <<>>
        /\ [i \in 1..Len(zip) |-> zip[i].name]
             = <<"openapi.yaml", "backend/main.py", "client_demo.py", "README.md">>
        /\ zip[1].content = page.openapi[1]
        /\ zip[2].content = page.fastapi[1]
        /\ zip[3].content = page.client[1]
        /\ endpoints # <<>>
        /\ Len(page.previews) = Len(endpoints)
        /\ \A i \in 1..Len(endpoints) :
              /\ Len(page.previews[i].json) = 1
              /\ page.previews[i].json[1].status = "ok"
              /\ page.previews[i].json[1].message =
                    <<"Called ", endpoints[i].method, " ", endpoints[i].path>>
              /\ page.previews[i].json[1].summary = endpoints[i].summary
        /\ RunAlerts = <<>>

C10_Witness ==
    /\ page.download # <<>> /\ choice = CustomRequirement
    /\ Len(endpoints) = 2 /\ ~Has(endpoints[1], "func_name")

====

